---- MODULE Spec2Model ----
(***************************************************************************)
(* A model of dmitigr/base/math.hpp (alignment arithmetic, Interval<T>,    *)
(* avg/variance) and of dmitigr/nix/process.hpp (wait_for_exit).           *)
(*                                                                         *)
(* The four components do not share state.  Each has its own variables,    *)
(* its own next-state relation and its own specification; the variables of *)
(* the other components stay at their idle values.                         *)
(***************************************************************************)
EXTENDS Integers, Sequences, FiniteSets

VARIABLES
  \* ---- alignment (math.hpp 31-73): T is a signed integer type of W bits
  value,        \* the `value` argument
  alignment,    \* the `alignment` argument (also is_power_of_two's `number`)
  pow_out,      \* outcome of the last is_power_of_two(alignment)
  pad_out,      \* outcome of the last padding(value, alignment)
  al_out,       \* outcome of the last aligned(value, alignment)
  \* ---- Interval<T> (math.hpp 92-207)
  constructed,  \* an instance exists (its constructor returned)
  type_,        \* Interval::type_
  min_,         \* Interval::min_
  max_,         \* Interval::max_
  iop,          \* the last operation: its name and its arguments
  ires,         \* what the last operation returned or threw
  \* ---- statistics (math.hpp 218-255)
  data,         \* the container
  general,      \* the `general` argument
  s_op,         \* the last function called
  s_avg,        \* the `avg` argument of the last variance(data, avg, general)
  s_res,        \* its outcome
  \* ---- wait_for_exit (process.hpp 37-49)
  wpc,          \* position of the caller inside wait_for_exit
  exists,       \* a process with this pid exists
  permitted,    \* the caller may signal it
  w_errno,      \* errno
  polling_interval,
  remaining,    \* ticks left of the current sleep_for
  probes        \* kill(pid, 0) calls made so far (saturating)

align_vars == <<value, alignment, pow_out, pad_out, al_out>>
interval_vars == <<constructed, type_, min_, max_, iop, ires>>
stat_vars == <<data, general, s_op, s_avg, s_res>>
wait_vars == <<wpc, exists, permitted, w_errno, polling_interval, remaining, probes>>
vars == <<align_vars, interval_vars, stat_vars, wait_vars>>

(***************************************************************************)
(* Bounds of the model.                                                    *)
(***************************************************************************)
\* width in bits of the signed integer type T of the alignment functions
W == 4
\* Interval<T> endpoints and has() arguments range over -MaxVal..MaxVal
MaxVal == 2
\* containers hold 1..MaxLen elements
MaxLen == 3
\* container elements range over -1..MaxData
MaxData == 2
\* polling_interval ranges over 0..MaxInterval ticks
MaxInterval == 3
\* the probe counter saturates here
MaxProbes == 3

(***************************************************************************)
(* Outcomes of a call: a returned value, or a thrown exception.            *)
(***************************************************************************)
None == [kind |-> "none", val |-> 0, what |-> ""]
Val(v) == [kind |-> "value", val |-> v, what |-> ""]
NoBool == [kind |-> "none", val |-> FALSE, what |-> ""]
Throw(msg) == [kind |-> "invalid_argument", val |-> 0, what |-> msg]

(***************************************************************************)
(* W-bit two's-complement integers.  Signed overflow is undefined          *)
(* behaviour: the operation may then yield any value of T.                 *)
(***************************************************************************)
Mod == 2 ^ W
TMin == -(2 ^ (W - 1))
TMax == (2 ^ (W - 1)) - 1
T == TMin..TMax

ToU(x) == x % Mod
ToS(u) == IF u >= 2 ^ (W - 1) THEN u - Mod ELSE u

RECURSIVE AndU(_, _, _)
AndU(a, b, n) ==
  IF n = 0 THEN 0
  ELSE (a % 2) * (b % 2) + 2 * AndU(a \div 2, b \div 2, n - 1)

\* a & b
BitAnd(a, b) == ToS(AndU(ToU(a), ToU(b), W))
\* a + b, a - b, -a: the set of values the build may produce
Add(a, b) == IF a + b \in T THEN {a + b} ELSE T
Sub(a, b) == IF a - b \in T THEN {a - b} ELSE T
Neg(a) == IF -a \in T THEN {-a} ELSE T

\* return (number & (number - 1)) == 0;
is_power_of_two(number) ==
  { BitAnd(number, m) = 0 : m \in Sub(number, 1) }

padding(v, a) ==
  IF ~(v >= 0)
    THEN {Throw("cannot calculate padding for a negative value")}
    ELSE UNION { IF ~p
                   THEN {Throw("cannot calculate padding with alignment that is not power of 2")}
                   ELSE { Val(BitAnd(n, m)) : n \in Sub(0, v), m \in Sub(a, 1) }
                 : p \in is_power_of_two(a) }

aligned(v, a) ==
  IF ~(v >= 0)
    THEN {Throw("cannot align a negative value")}
    ELSE UNION { IF ~p
                   THEN {Throw("cannot align a value with alignment that is not power of 2")}
                   ELSE UNION { UNION { { Val(BitAnd(s, n)) : n \in Neg(a) }
                                        : s \in Add(v, m) }
                                : m \in Sub(a, 1) }
                 : p \in is_power_of_two(a) }

AlignIdle ==
  /\ value = 0
  /\ alignment = 1
  /\ pow_out = NoBool
  /\ pad_out = None
  /\ al_out = None

\* the arguments range over the 2^W bit patterns of T
AlignInit ==
  /\ \E u \in 0..(Mod - 1) : value = ToS(u)
  /\ \E u \in 0..(Mod - 1) : alignment = ToS(u)
  /\ pow_out = NoBool
  /\ pad_out = None
  /\ al_out = None

Call_is_power_of_two ==
  /\ \E r \in is_power_of_two(alignment) : pow_out' = Val(r)
  /\ UNCHANGED <<value, alignment, pad_out, al_out>>
  /\ UNCHANGED <<interval_vars, stat_vars, wait_vars>>

Call_padding ==
  /\ \E o \in padding(value, alignment) : pad_out' = o
  /\ UNCHANGED <<value, alignment, pow_out, al_out>>
  /\ UNCHANGED <<interval_vars, stat_vars, wait_vars>>

Call_aligned ==
  /\ \E o \in aligned(value, alignment) : al_out' = o
  /\ UNCHANGED <<value, alignment, pow_out, pad_out>>
  /\ UNCHANGED <<interval_vars, stat_vars, wait_vars>>

AlignNext ==
  \/ Call_is_power_of_two
  \/ Call_padding
  \/ Call_aligned

(***************************************************************************)
(* Interval<T>, T = int restricted to -MaxVal..MaxVal.                     *)
(***************************************************************************)
IVals == (-MaxVal)..MaxVal
Types == {"closed", "open", "lopen", "ropen"}
\* T{}: the value of a value-initialised T
TDefault == 0

Op(name, t, mn, mx, v) ==
  [name |-> name, type |-> t, min |-> mn, max |-> mx, value |-> v]
NoOp == Op("none", "closed", 0, 0, 0)
\* a return statement that copy-list-initialises through an explicit
\* constructor is ill-formed: no call of the function can be built
IllFormed ==
  [kind |-> "ill_formed", val |-> 0,
   what |-> "converting from initializer list would use explicit constructor"]

\* the constructor threw, or the call could not be built: there is no
\* instance, and the members are written at their idle values
NoInstance ==
  /\ constructed' = FALSE
  /\ type_' = "closed"
  /\ min_' = TDefault
  /\ max_' = TDefault

\* requirement with <= where the code has <
requirement_le(t, mn, mx) ==
  \/ (t = "closed" /\ mn <= mx)
  \/ (t # "closed" /\ mn <= mx)

\* const bool requirement = ...
requirement(t, mn, mx) ==
  \/ (t = "closed" /\ mn <= mx)
  \/ (t # "closed" /\ mn < mx)

\* Interval() = default;
Interval0 ==
  /\ constructed' = TRUE
  /\ type_' = "closed"
  /\ min_' = TDefault
  /\ max_' = TDefault
  /\ iop' = Op("Interval0", "closed", 0, 0, 0)
  /\ ires' = None
  /\ UNCHANGED <<align_vars, stat_vars, wait_vars>>

\* explicit Interval(T min, T max)
Interval2 ==
  /\ \E mn \in IVals, mx \in IVals :
       /\ iop' = Op("Interval2", "closed", mn, mx, 0)
       /\ IF ~(mn <= mx)
            THEN /\ ires' = Throw("interval is invalid (min > max)")
                 /\ NoInstance
            ELSE /\ ires' = None
                 /\ constructed' = TRUE
                 /\ type_' = "closed"
                 /\ min_' = mn
                 /\ max_' = mx
  /\ UNCHANGED <<align_vars, stat_vars, wait_vars>>

\* explicit Interval(const Type type, T min, T max)
Interval3 ==
  /\ \E t \in Types, mn \in IVals, mx \in IVals :
       /\ iop' = Op("Interval3", t, mn, mx, 0)
       /\ IF ~requirement(t, mn, mx)
            THEN /\ ires' = Throw("interval is invalid (min > max or min >= max)")
                 /\ NoInstance
            ELSE /\ ires' = None
                 /\ constructed' = TRUE
                 /\ type_' = t
                 /\ min_' = mn
                 /\ max_' = mx
  /\ UNCHANGED <<align_vars, stat_vars, wait_vars>>

\* return {Type::..., std::move(min), std::move(max)}; with an explicit
\* constructor: the factory cannot be instantiated, no instance results
Factory(name, t) ==
  /\ \E mn \in IVals, mx \in IVals :
       /\ iop' = Op(name, t, mn, mx, 0)
       /\ ires' = IllFormed
       /\ NoInstance
  /\ UNCHANGED <<align_vars, stat_vars, wait_vars>>

make_closed == Factory("make_closed", "closed")
make_open == Factory("make_open", "open")
make_lopen == Factory("make_lopen", "lopen")
make_ropen == Factory("make_ropen", "ropen")

\* Type type() const noexcept
Call_type ==
  /\ constructed
  /\ iop' = Op("type", "closed", 0, 0, 0)
  /\ ires' = Val(type_)
  /\ UNCHANGED <<constructed, type_, min_, max_>>
  /\ UNCHANGED <<align_vars, stat_vars, wait_vars>>

\* const T& min() const noexcept
Call_min ==
  /\ constructed
  /\ iop' = Op("min", "closed", 0, 0, 0)
  /\ ires' = Val(min_)
  /\ UNCHANGED <<constructed, type_, min_, max_>>
  /\ UNCHANGED <<align_vars, stat_vars, wait_vars>>

\* const T& max() const noexcept
Call_max ==
  /\ constructed
  /\ iop' = Op("max", "closed", 0, 0, 0)
  /\ ires' = Val(max_)
  /\ UNCHANGED <<constructed, type_, min_, max_>>
  /\ UNCHANGED <<align_vars, stat_vars, wait_vars>>

\* has with the lopen and ropen cases exchanged
has_swapped(v) ==
  CASE type_ = "closed" -> Val((min_ <= v) /\ (v <= max_))
    [] type_ = "open"   -> Val((min_ < v) /\ (v < max_))
    [] type_ = "lopen"  -> Val((min_ <= v) /\ (v < max_))
    [] type_ = "ropen"  -> Val((min_ < v) /\ (v <= max_))
    [] OTHER            -> [kind |-> "assert_failed", val |-> FALSE, what |-> "false"]

\* bool has(const T& value) const noexcept
has(v) ==
  CASE type_ = "closed" -> Val((min_ <= v) /\ (v <= max_))
    [] type_ = "open"   -> Val((min_ < v) /\ (v < max_))
    [] type_ = "lopen"  -> Val((min_ < v) /\ (v <= max_))
    [] type_ = "ropen"  -> Val((min_ <= v) /\ (v < max_))
    [] OTHER            -> [kind |-> "assert_failed", val |-> FALSE, what |-> "false"]

Call_has ==
  /\ constructed
  /\ \E v \in IVals :
       /\ iop' = Op("has", "closed", 0, 0, v)
       /\ ires' = has(v)
  /\ UNCHANGED <<constructed, type_, min_, max_>>
  /\ UNCHANGED <<align_vars, stat_vars, wait_vars>>

\* release that resets the endpoints and keeps the type
release_keeps_type ==
  /\ constructed
  /\ iop' = Op("release", "closed", 0, 0, 0)
  /\ ires' = Val(<<min_, max_>>)
  /\ min_' = TDefault
  /\ max_' = TDefault
  /\ UNCHANGED <<constructed, type_>>
  /\ UNCHANGED <<align_vars, stat_vars, wait_vars>>

\* std::pair<T, T> release() noexcept
release ==
  /\ constructed
  /\ iop' = Op("release", "closed", 0, 0, 0)
  /\ ires' = Val(<<min_, max_>>)
  /\ type_' = "closed"
  /\ min_' = TDefault
  /\ max_' = TDefault
  /\ UNCHANGED constructed
  /\ UNCHANGED <<align_vars, stat_vars, wait_vars>>

IntervalIdle ==
  /\ constructed = FALSE
  /\ type_ = "closed"
  /\ min_ = TDefault
  /\ max_ = TDefault
  /\ iop = NoOp
  /\ ires = None

IntervalNext ==
  \/ Interval0
  \/ Interval2
  \/ Interval3
  \/ make_closed
  \/ make_open
  \/ make_lopen
  \/ make_ropen
  \/ Call_type
  \/ Call_min
  \/ Call_max
  \/ Call_has
  \/ release

(***************************************************************************)
(* Statistics.  A double is modelled by an exact rational n/d (d > 0, in   *)
(* lowest terms) or by one of the special values +inf, -inf and NaN that a *)
(* division by zero produces; rounding is not modelled.                    *)
(***************************************************************************)
RECURSIVE GCD(_, _)
GCD(a, b) == IF b = 0 THEN a ELSE GCD(b, a % b)
Abs(x) == IF x < 0 THEN -x ELSE x

Fin(n, d) ==
  LET sn == IF d < 0 THEN -n ELSE n
      sd == Abs(d)
      g == GCD(Abs(sn), sd)
  IN [k |-> "fin", n |-> sn \div g, d |-> sd \div g]
Inf == [k |-> "inf", n |-> 1, d |-> 0]
NInf == [k |-> "ninf", n |-> -1, d |-> 0]
NaN == [k |-> "nan", n |-> 0, d |-> 0]
Zero == Fin(0, 1)
\* static_cast<double>(i)
ToDouble(i) == Fin(i, 1)

\* -1, 0 or 1; NaN has no sign
Sgn(x) == IF x.n > 0 THEN 1 ELSE IF x.n < 0 THEN -1 ELSE 0

\* a + b
RAdd(a, b) ==
  IF a.k = "nan" \/ b.k = "nan" THEN NaN
  ELSE IF a.k = "fin" /\ b.k = "fin" THEN Fin(a.n * b.d + b.n * a.d, a.d * b.d)
  ELSE IF a.k = "fin" THEN b
  ELSE IF b.k = "fin" THEN a
  ELSE IF a.k = b.k THEN a
  ELSE NaN
\* -a
RNeg(a) ==
  IF a.k = "fin" THEN Fin(-a.n, a.d)
  ELSE IF a.k = "inf" THEN NInf
  ELSE IF a.k = "ninf" THEN Inf
  ELSE NaN
\* a - b
RSub(a, b) == RAdd(a, RNeg(b))
\* a * b
RMul(a, b) ==
  IF a.k = "nan" \/ b.k = "nan" THEN NaN
  ELSE IF a.k = "fin" /\ b.k = "fin" THEN Fin(a.n * b.n, a.d * b.d)
  ELSE IF Sgn(a) * Sgn(b) = 0 THEN NaN
  ELSE IF Sgn(a) * Sgn(b) > 0 THEN Inf
  ELSE NInf
\* a / b, for finite a and b
RDiv(a, b) ==
  IF b.n # 0 THEN Fin(a.n * b.d, a.d * b.n)
  ELSE IF a.n = 0 THEN NaN
  ELSE IF a.n > 0 THEN Inf
  ELSE NInf
\* a >= 0
RGe0(a) == a.k # "nan" /\ a.n >= 0

SNone == [kind |-> "none", val |-> Zero, what |-> ""]
AssertFailed == [kind |-> "assert_failed", val |-> Zero, what |-> "result >= 0"]

\* for (const double num : data) result += (num / static_cast<double>(data_size));
RECURSIVE avg_loop(_, _, _)
avg_loop(c, i, result) ==
  IF i > Len(c) THEN result
  ELSE avg_loop(c, i + 1, RAdd(result, RDiv(ToDouble(c[i]), ToDouble(Len(c)))))

avg(c) == avg_loop(c, 1, Zero)

\* for (const double num : data) { d = num - avg; result += (d / den) * d; }
RECURSIVE variance_loop(_, _, _, _, _)
variance_loop(c, a, den, i, result) ==
  IF i > Len(c) THEN result
  ELSE LET d == RSub(ToDouble(c[i]), a)
       IN variance_loop(c, a, den, i + 1, RAdd(result, RMul(RDiv(d, den), d)))

\* variance with the denominators of the two modes exchanged
variance_swapped(c, a, g) ==
  LET den == ToDouble(Len(c) - (IF g THEN 1 ELSE 0))
      result == variance_loop(c, a, den, 1, Zero)
  IN IF RGe0(result) THEN Val(result) ELSE AssertFailed

\* variance(data, avg, general)
variance(c, a, g) ==
  LET den == ToDouble(Len(c) - (IF ~g THEN 1 ELSE 0))
      result == variance_loop(c, a, den, 1, Zero)
  IN IF RGe0(result) THEN Val(result) ELSE AssertFailed

\* variance(data, general)
variance2(c, g) == variance(c, avg(c), g)

DataVals == (-1)..MaxData
Example == <<2, 4, 4, 4, 5, 5, 7, 9>>
Containers == (UNION { [1..n -> DataVals] : n \in 1..MaxLen }) \cup {Example}
\* the values passed as the `avg` argument: the mean, and some that are not
AvgArgs(c) == {avg(c)} \cup { ToDouble(x) : x \in DataVals }

StatIdle ==
  /\ data = <<0>>
  /\ general = TRUE
  /\ s_op = "none"
  /\ s_avg = Zero
  /\ s_res = SNone

StatInit ==
  /\ data \in Containers
  /\ general \in BOOLEAN
  /\ s_op = "none"
  /\ s_avg = Zero
  /\ s_res = SNone

Call_avg ==
  /\ s_op' = "avg"
  /\ s_avg' = Zero
  /\ s_res' = Val(avg(data))
  /\ UNCHANGED <<data, general>>
  /\ UNCHANGED <<align_vars, interval_vars, wait_vars>>

Call_variance ==
  /\ \E a \in AvgArgs(data) :
       /\ s_avg' = a
       /\ s_res' = variance(data, a, general)
  /\ s_op' = "variance"
  /\ UNCHANGED <<data, general>>
  /\ UNCHANGED <<align_vars, interval_vars, wait_vars>>

Call_variance2 ==
  /\ s_op' = "variance2"
  /\ s_avg' = Zero
  /\ s_res' = variance2(data, general)
  /\ UNCHANGED <<data, general>>
  /\ UNCHANGED <<align_vars, interval_vars, wait_vars>>

StatNext ==
  \/ Call_avg
  \/ Call_variance
  \/ Call_variance2

(***************************************************************************)
(* wait_for_exit(pid, polling_interval), pid > 0.  The caller is at the    *)
(* kill probe, inside sleep_for, or has left by return or by exception.    *)
(* The process may exit at any moment; an exited process does not come     *)
(* back.                                                                   *)
(***************************************************************************)
\* kill(pid, 0): the return value and errno afterwards
kill0 ==
  IF ~exists THEN [ret |-> -1, errno |-> "ESRCH"]
  ELSE IF ~permitted THEN [ret |-> -1, errno |-> "EPERM"]
  ELSE [ret |-> 0, errno |-> w_errno]

\* a probe that leaves the loop on any failure of kill
Probe_breaks_on_any_error ==
  /\ wpc = "probe"
  /\ LET r == kill0
     IN /\ w_errno' = r.errno
        /\ IF r.ret < 0
             THEN /\ wpc' = "returned"
                  /\ remaining' = remaining
             ELSE /\ wpc' = "sleep"
                  /\ remaining' = polling_interval
  /\ probes' = (IF probes < MaxProbes THEN probes + 1 ELSE probes)
  /\ UNCHANGED <<exists, permitted, polling_interval>>
  /\ UNCHANGED <<align_vars, interval_vars, stat_vars>>

\* if (kill(pid, 0) < 0) { if (errno == ESRCH) break; else throw ...; }
Probe ==
  /\ wpc = "probe"
  /\ LET r == kill0
     IN /\ w_errno' = r.errno
        /\ IF r.ret < 0
             THEN /\ wpc' = (IF r.errno = "ESRCH" THEN "returned" ELSE "thrown")
                  /\ remaining' = remaining
             ELSE /\ wpc' = "sleep"
                  /\ remaining' = polling_interval
  /\ probes' = (IF probes < MaxProbes THEN probes + 1 ELSE probes)
  /\ UNCHANGED <<exists, permitted, polling_interval>>
  /\ UNCHANGED <<align_vars, interval_vars, stat_vars>>

\* std::this_thread::sleep_for(polling_interval): one tick passes, or the
\* sleep is over and the loop goes round
Sleep ==
  /\ wpc = "sleep"
  /\ IF remaining > 0
       THEN /\ remaining' = remaining - 1
            /\ wpc' = wpc
       ELSE /\ remaining' = remaining
            /\ wpc' = "probe"
  /\ UNCHANGED <<exists, permitted, w_errno, polling_interval, probes>>
  /\ UNCHANGED <<align_vars, interval_vars, stat_vars>>

\* the environment: the process ceases to exist
Exit ==
  /\ exists
  /\ exists' = FALSE
  /\ UNCHANGED <<wpc, permitted, w_errno, polling_interval, remaining, probes>>
  /\ UNCHANGED <<align_vars, interval_vars, stat_vars>>

WaitIdle ==
  /\ wpc = "probe"
  /\ exists = TRUE
  /\ permitted = TRUE
  /\ w_errno = "0"
  /\ polling_interval = 0
  /\ remaining = 0
  /\ probes = 0

WaitInit ==
  /\ wpc = "probe"
  /\ exists \in BOOLEAN
  /\ permitted \in BOOLEAN
  /\ w_errno = "0"
  /\ polling_interval \in 0..MaxInterval
  /\ remaining = 0
  /\ probes = 0

WaitNext ==
  \/ Probe
  \/ Sleep
  \/ Exit

(***************************************************************************)
(* Specifications.                                                         *)
(***************************************************************************)
AlignSpecInit == AlignInit /\ IntervalIdle /\ StatIdle /\ WaitIdle
IntervalSpecInit == AlignIdle /\ IntervalIdle /\ StatIdle /\ WaitIdle
StatSpecInit == AlignIdle /\ IntervalIdle /\ StatInit /\ WaitIdle
WaitSpecInit == AlignIdle /\ IntervalIdle /\ StatIdle /\ WaitInit

AlignSpec == AlignSpecInit /\ [][AlignNext]_vars
IntervalSpec == IntervalSpecInit /\ [][IntervalNext]_vars
StatSpec == StatSpecInit /\ [][StatNext]_vars
\* the thread that runs wait_for_exit keeps being scheduled, and sleep_for
\* returns: each of its steps is taken if it stays possible
WaitSpec == WaitSpecInit /\ [][WaitNext]_vars /\ WF_vars(Probe) /\ WF_vars(Sleep)

(***************************************************************************)
(* The claims.                                                             *)
(***************************************************************************)
\* a = 2^k for some k >= 0, a value of T
IsPow2(a) == \E k \in 0..(W - 2) : a = 2 ^ k

NegativeMsgs ==
  {"cannot calculate padding for a negative value", "cannot align a negative value"}

\* C1: for every value >= 0 and every alignment 2^k of T, padding and aligned
\* both return, aligned is a multiple of alignment, 0 <= padding < alignment
\* and aligned - value = padding.
C1_AlignedPaddingContract ==
  (value >= 0 /\ IsPow2(alignment)) =>
    /\ pad_out.kind # "none" =>
         /\ pad_out.kind = "value"
         /\ 0 <= pad_out.val
         /\ pad_out.val < alignment
    /\ al_out.kind # "none" =>
         /\ al_out.kind = "value"
         /\ al_out.val % alignment = 0
         /\ al_out.val >= value
    /\ (pad_out.kind # "none" /\ al_out.kind # "none") =>
         al_out.val - value = pad_out.val

\* C2: is_power_of_two(n) is true iff n = 0 or n = 2^k, for every n of T,
\* the negative values and the minimum included.
C2_IsPowerOfTwo ==
  pow_out.kind = "value" =>
    (pow_out.val <=> (alignment = 0 \/ IsPow2(alignment)))

\* C3: padding and aligned throw invalid_argument exactly when value < 0 or
\* alignment is not a power of two, return otherwise, and the message tells
\* the two violations apart.
C3_FailsExactlyOnBadArguments ==
  LET bad == value < 0 \/ ~IsPow2(alignment)
      Ok(o) == o.kind # "none" =>
                 /\ (o.kind = "invalid_argument") <=> bad
                 /\ (o.kind = "value") <=> ~bad
                 /\ o.kind = "invalid_argument" =>
                      ((o.what \in NegativeMsgs) <=> (value < 0))
  IN /\ Ok(pad_out)
     /\ Ok(al_out)
     /\ (pad_out.kind # "none" /\ al_out.kind # "none") =>
          ((pad_out.kind = "invalid_argument") <=> (al_out.kind = "invalid_argument"))

\* C4: padding and aligned return a number only when alignment > 0; an
\* alignment <= 0 is rejected with invalid_argument.
C4_AlignmentMustBePositive ==
  LET Ok(o) == /\ o.kind = "value" => alignment > 0
               /\ (o.kind # "none" /\ alignment <= 0) => o.kind = "invalid_argument"
  IN value >= 0 => (Ok(pad_out) /\ Ok(al_out))

\* C5: every instance that exists satisfies
\* (type = closed and min <= max) or (type # closed and min < max).
C5_IntervalInvariant ==
  constructed =>
    \/ (type_ = "closed" /\ min_ <= max_)
    \/ (type_ # "closed" /\ min_ < max_)

C5_Witness ==
  /\ constructed
  /\ type_ = "lopen"
  /\ iop.name = "has"

Constructions ==
  {"Interval2", "Interval3", "make_closed", "make_open", "make_lopen", "make_ropen"}

\* C6: a construction (constructor or factory) throws invalid_argument iff
\* the ordering of its type is violated, and otherwise yields an instance
\* with the requested type, min and max.
C6_ConstructionFailsIffOrderingViolated ==
  iop.name \in Constructions =>
    IF \/ (iop.type = "closed" /\ iop.min > iop.max)
       \/ (iop.type # "closed" /\ iop.min >= iop.max)
      THEN /\ ires.kind = "invalid_argument"
           /\ ~constructed
      ELSE /\ ires.kind = "none"
           /\ constructed
           /\ type_ = iop.type
           /\ min_ = iop.min
           /\ max_ = iop.max

\* C7: has(v) always returns, and returns min <= v <= max for closed,
\* min < v < max for open, min < v <= max for lopen, min <= v < max for
\* ropen; has(min) is true exactly for closed and ropen, has(max) exactly for
\* closed and lopen.
C7_HasSemantics ==
  iop.name = "has" =>
    LET v == iop.value IN
    /\ ires.kind = "value"
    /\ type_ = "closed" => (ires.val <=> (min_ <= v /\ v <= max_))
    /\ type_ = "open" => (ires.val <=> (min_ < v /\ v < max_))
    /\ type_ = "lopen" => (ires.val <=> (min_ < v /\ v <= max_))
    /\ type_ = "ropen" => (ires.val <=> (min_ <= v /\ v < max_))
    /\ v = min_ => (ires.val <=> type_ \in {"closed", "ropen"})
    /\ v = max_ => (ires.val <=> type_ \in {"closed", "lopen"})

C7_Witness ==
  /\ iop.name = "has"
  /\ type_ = "lopen"
  /\ iop.value = max_
  /\ ires.val = TRUE

Accessors == {"type", "min", "max", "has"}

\* C8: release() returns (min, max) and leaves the instance closed with both
\* endpoints at T's default, so that has(v) afterwards holds iff v is the
\* default and a second release returns (default, default); type(), min(),
\* max() and has() leave (type, min, max) unchanged.
C8_Release ==
  [][ /\ iop'.name = "release" =>
           /\ ires'.kind = "value"
           /\ ires'.val = <<min_, max_>>
           /\ type_' = "closed"
           /\ min_' = TDefault
           /\ max_' = TDefault
      /\ (iop.name = "release" /\ iop'.name = "has") =>
           (ires'.val <=> (iop'.value = TDefault))
      /\ (iop.name = "release" /\ iop'.name = "release") =>
           ires'.val = <<TDefault, TDefault>>
      /\ iop'.name \in Accessors =>
           /\ type_' = type_
           /\ min_' = min_
           /\ max_' = max_
           /\ constructed' = constructed ]_vars

C8_Witness ==
  /\ iop.name = "release"
  /\ ires.val = <<-1, 2>>
  /\ type_ = "closed"
  /\ min_ = TDefault
  /\ max_ = TDefault

RECURSIVE SumSeq(_, _)
\* c[i] + ... + c[Len(c)]
SumSeq(c, i) == IF i > Len(c) THEN 0 ELSE c[i] + SumSeq(c, i + 1)
RECURSIVE SumSqDev(_, _)
\* the sum over x of (N*x - S)^2, which is N^2 * sum((x - S/N)^2)
SumSqDev(c, i) ==
  IF i > Len(c) THEN 0
  ELSE (Len(c) * c[i] - SumSeq(c, 1)) * (Len(c) * c[i] - SumSeq(c, 1))
       + SumSqDev(c, i + 1)
\* the double r is the rational n/d
IsRatio(r, n, d) == r.k = "fin" /\ r.n * d = n * r.d

====
